---- MODULE Spec2Model ----
(***************************************************************************)
(* A model of deno_package_json (src/src/lib.rs): the manifest builder     *)
(* (load_from_value), the exports normalizer, entrypoint selection, the    *)
(* lazily memoized dependency resolver and the cached load_from_path.      *)
(*                                                                         *)
(* Rust Strings are sequences of one-character strings, so that prefix     *)
(* tests, splitting and trimming are computed rather than assumed.         *)
(* Option<T> is None / Some(v); Result<T, E> is a record with an ok flag.  *)
(***************************************************************************)
EXTENDS Integers, Sequences, FiniteSets, TLC

VARIABLES
  \* ---- dependency resolution (resolve_local_package_json_deps) ----
  pkg,            \* the manifest whose dependencies are resolved
  resolved_deps,  \* its OnceLock<PackageJsonDepsRc> cell
  active,         \* the callers that share the manifest in this run
  cpc,            \* caller -> position inside resolve_local_package_json_deps
  clocal,         \* caller -> the PackageJsonDeps it is building in the closure
  cret,           \* caller -> sequence of the values its calls returned
  initRuns,       \* how many times the get_or_init closure has run
  waited,         \* the callers that found an initializer running and waited
  nextRc,         \* next fresh allocation identity (MaybeArc::new)
  lookup,         \* the last PackageJsonDeps::get query and its answer
  \* ---- manifest builder (load_from_value, main, Serialize) ----
  doc,            \* the JSON value handed to load_from_value
  built,          \* what load_from_value produced: nothing yet, a manifest, a panic
  mainOut,        \* the last main(referrer_kind) query and its answer
  ser,            \* the manifest's serialization, once taken
  \* ---- load_from_path with a PackageJsonCache ----
  fs,             \* DenoPkgJsonFs: path -> Ok(text) or Err(io error)
  cache,          \* PackageJsonCache: path -> Option<PackageJsonRc>
  heap,           \* the manifests allocated by new_rc; a PackageJsonRc is an index
  lpc,            \* loader -> position inside load_from_path
  lpath,          \* loader -> the path argument
  lwith,          \* loader -> whether maybe_cache is Some
  ltext,          \* loader -> file_text
  lpkg,           \* loader -> pkg_json, the PackageJsonRc it built
  lres,           \* loader -> the Result the call returned
  llog,           \* loader -> the collaborator calls the call has made, in order
  loads           \* calls of load_from_path begun

depsVars ==
  <<pkg, resolved_deps, active, cpc, clocal, cret, initRuns, waited, nextRc, lookup>>

valueVars == <<doc, built, mainOut, ser>>

loadVars == <<fs, cache, heap, lpc, lpath, lwith, ltext, lpkg, lres, llog, loads>>

vars == <<depsVars, valueVars, loadVars>>

\* what an operation on one part of the program leaves alone
notDeps == <<valueVars, loadVars>>
notValue == <<depsVars, loadVars>>
notLoad == <<depsVars, valueVars>>

-----------------------------------------------------------------------------
(* Option<T>                                                               *)

None == [some |-> FALSE]
Some(v) == [some |-> TRUE, val |-> v]

\* OnceLock<T>: incomplete, running (one initializer inside the closure), complete
\* OnceLock::new()
EmptyCell == [state |-> "incomplete"]

-----------------------------------------------------------------------------
(* str operations of the Rust standard library, on sequences of characters *)

\* str::starts_with
StartsWith(s, p) == Len(s) >= Len(p) /\ SubSeq(s, 1, Len(p)) = p

\* str::strip_prefix
StripPrefix(s, p) ==
  IF StartsWith(s, p) THEN Some(SubSeq(s, Len(p) + 1, Len(s))) ELSE None

\* positions of character c in s
Positions(s, c) == {i \in 1..Len(s) : s[i] = c}

MaxOf(S) == CHOOSE m \in S : \A n \in S : n <= m
MinOf(S) == CHOOSE m \in S : \A n \in S : m <= n

\* str::rsplit_once(c): split on the last occurrence of c
RSplitOnce(s, c) ==
  IF Positions(s, c) = {} THEN None
  ELSE LET i == MaxOf(Positions(s, c))
       IN  Some(<<SubSeq(s, 1, i - 1), SubSeq(s, i + 1, Len(s))>>)

\* str::split(c).next().unwrap(): the text before the first c (all of s if none)
SplitFirst(s, c) ==
  IF Positions(s, c) = {} THEN s
  ELSE SubSeq(s, 1, MinOf(Positions(s, c)) - 1)

\* char::is_whitespace, on the characters the model uses
WhiteSpace == {" ", "\t", "\n"}

\* str::trim
Trim(s) ==
  LET keep == {i \in 1..Len(s) : s[i] \notin WhiteSpace}
  IN  IF keep = {} THEN <<>> ELSE SubSeq(s, MinOf(keep), MaxOf(keep))

-----------------------------------------------------------------------------
(* String literals of the source                                           *)

STR_workspace == <<"w", "o", "r", "k", "s", "p", "a", "c", "e", ":">>
STR_file == <<"f", "i", "l", "e", ":">>
STR_git == <<"g", "i", "t", ":">>
STR_http == <<"h", "t", "t", "p", ":">>
STR_https == <<"h", "t", "t", "p", "s", ":">>
STR_npm == <<"n", "p", "m", ":">>
STR_star == <<"*">>
STR_tilde == <<"~">>
STR_caret == <<"^">>
STR_imports == <<"i", "m", "p", "o", "r", "t", "s">>
STR_main == <<"m", "a", "i", "n">>
STR_module == <<"m", "o", "d", "u", "l", "e">>
STR_name == <<"n", "a", "m", "e">>
STR_version == <<"v", "e", "r", "s", "i", "o", "n">>
STR_type == <<"t", "y", "p", "e">>
STR_bin == <<"b", "i", "n">>
STR_exports == <<"e", "x", "p", "o", "r", "t", "s">>
STR_dependencies == <<"d", "e", "p", "e", "n", "d", "e", "n", "c", "i", "e", "s">>
STR_devDependencies == <<"d", "e", "v", "D", "e", "p", "e", "n", "d", "e", "n", "c", "i", "e", "s">>
STR_scripts == <<"s", "c", "r", "i", "p", "t", "s">>
STR_typings == <<"t", "y", "p", "i", "n", "g", "s">>
STR_types == <<"t", "y", "p", "e", "s">>
STR_workspaces == <<"w", "o", "r", "k", "s", "p", "a", "c", "e", "s">>
STR_commonjs == <<"c", "o", "m", "m", "o", "n", "j", "s">>
STR_none == <<"n", "o", "n", "e">>
STR_dot == <<".">>
STR_path == <<"p", "a", "t", "h">>

-----------------------------------------------------------------------------
(* Dependency resolver                                                     *)

\* Characters the version-requirement grammar of deno_semver rejects
\* ("Unexpected character."), among the characters the model uses.
UnexpectedChars == {"%"}

\* VersionReq::parse_from_npm (deno_semver): Ok(requirement) or
\* Err(NpmVersionReqParseError), each carrying the text it was given.
parse_from_npm(text) ==
  IF \E i \in 1..Len(text) : text[i] \in UnexpectedChars
  THEN [ok |-> FALSE, err |-> [source |-> text]]
  ELSE [ok |-> TRUE, req |-> [raw |-> text]]

\* Result<PackageJsonDepValue, PackageJsonDepValueParseError>
OkReq(name, version_req) ==
  [ok |-> TRUE, kind |-> "Req", name |-> name, version_req |-> version_req]
OkWorkspace(w) == [ok |-> TRUE, kind |-> "Workspace", workspace |-> w]
ErrVersionReq(e) == [ok |-> FALSE, kind |-> "VersionReq", err |-> e]
ErrUnsupported(scheme) == [ok |-> FALSE, kind |-> "Unsupported", scheme |-> scheme]

\* PackageJsonDepWorkspaceReq
WsTilde == [w |-> "Tilde"]
WsCaret == [w |-> "Caret"]
WsVersionReq(r) == [w |-> "VersionReq", version_req |-> r]

\* a plausible slip: splitting on the first '@' instead of the last
parse_dep_entry_name_and_raw_version_first_at(key, value) ==
  LET stripped == StripPrefix(value, STR_npm)
  IN  IF stripped.some
      THEN LET package_and_version == stripped.val
           IN  IF Positions(package_and_version, "@") = {}
               THEN <<package_and_version, STR_star>>
               ELSE LET i == MinOf(Positions(package_and_version, "@"))
                        name == SubSeq(package_and_version, 1, i - 1)
                        version == SubSeq(package_and_version, i + 1,
                                          Len(package_and_version))
                    IN  IF name = <<>> THEN <<package_and_version, STR_star>>
                        ELSE <<name, version>>
      ELSE <<key, value>>

parse_dep_entry_name_and_raw_version(key, value) ==
  LET stripped == StripPrefix(value, STR_npm)
  IN  IF stripped.some
      THEN LET package_and_version == stripped.val
               split == RSplitOnce(package_and_version, "@")
           IN  IF split.some
               THEN LET name == split.val[1]
                        version == split.val[2]
                    IN  IF name = <<>> THEN <<package_and_version, STR_star>>
                        ELSE <<name, version>>
               ELSE <<package_and_version, STR_star>>
      ELSE <<key, value>>

parse_entry(key, value) ==
  LET workspace_key == StripPrefix(value, STR_workspace)
  IN  IF workspace_key.some
      THEN IF workspace_key.val = STR_tilde THEN OkWorkspace(WsTilde)
           ELSE IF workspace_key.val = STR_caret THEN OkWorkspace(WsCaret)
           ELSE LET r == parse_from_npm(workspace_key.val)
                IN  IF r.ok THEN OkWorkspace(WsVersionReq(r.req))
                    ELSE ErrVersionReq(r.err)
      ELSE IF \/ StartsWith(value, STR_file)
              \/ StartsWith(value, STR_git)
              \/ StartsWith(value, STR_http)
              \/ StartsWith(value, STR_https)
      THEN ErrUnsupported(SplitFirst(value, ":"))
      ELSE LET nv == parse_dep_entry_name_and_raw_version(key, value)
               result == parse_from_npm(nv[2])
           IN  IF result.ok THEN OkReq(nv[1], result.req)
               ELSE ErrVersionReq(result.err)

\* IndexMap: a sequence of [k, v] entries with distinct keys, in insertion order
Keys(m) == {m[i].k : i \in 1..Len(m)}
HasKey(m, k) == \E i \in 1..Len(m) : m[i].k = k
\* IndexMap::get
MapGet(m, k) ==
  IF HasKey(m, k) THEN Some(m[CHOOSE i \in 1..Len(m) : m[i].k = k].v) ELSE None

RECURSIVE GetMapLoop(_, _, _)
\* the for loop of get_map: entry(key).or_insert_with(|| parse_entry(key, value))
GetMapLoop(deps, i, result) ==
  IF i > Len(deps) THEN result
  ELSE LET key == deps[i].k
           value == deps[i].v
       IN  GetMapLoop(deps, i + 1,
             IF HasKey(result, key) THEN result
             ELSE Append(result, [k |-> key, v |-> parse_entry(key, value)]))

RECURSIVE GetMapAbortLoop(_, _, _)
\* a plausible slip: the first failing entry ends the loop (as `?` would)
GetMapAbortLoop(deps, i, result) ==
  IF i > Len(deps) THEN result
  ELSE LET r == parse_entry(deps[i].k, deps[i].v)
       IN  IF ~r.ok THEN result
           ELSE GetMapAbortLoop(deps, i + 1, Append(result, [k |-> deps[i].k, v |-> r]))

get_map_abort(deps) ==
  IF ~deps.some THEN <<>> ELSE GetMapAbortLoop(deps.val, 1, <<>>)

get_map(deps) ==
  IF ~deps.some THEN <<>> ELSE GetMapLoop(deps.val, 1, <<>>)

\* a plausible slip: the devDependencies entry shadows the dependencies entry
PackageJsonDeps_get_dev_first(d, alias) ==
  LET r == MapGet(d.dev_dependencies, alias)
  IN  IF r.some THEN r ELSE MapGet(d.dependencies, alias)

\* PackageJsonDeps::get
PackageJsonDeps_get(d, alias) ==
  LET r == MapGet(d.dependencies, alias)
  IN  IF r.some THEN r ELSE MapGet(d.dev_dependencies, alias)

-----------------------------------------------------------------------------
(* serde_json::Value                                                       *)

JNull == [t |-> "null"]
JBool(b) == [t |-> "bool", b |-> b]
JNum(n) == [t |-> "number", n |-> n]
JStr(s) == [t |-> "string", s |-> s]
JArr(a) == [t |-> "array", a |-> a]
\* Map<String, Value>: a sequence of [k, v] entries with distinct keys, in the
\* map's iteration order
JObj(o) == [t |-> "object", o |-> o]

Digit(d) == <<"0", "1", "2", "3", "4", "5", "6", "7", "8", "9">>[d + 1]

RECURSIVE NumberToString(_)
\* Number::to_string, for the natural numbers
NumberToString(n) ==
  IF n < 10 THEN <<Digit(n)>> ELSE Append(NumberToString(n \div 10), Digit(n % 10))

\* Map::remove(key): the value removed, if any, and the map that is left
MapRemove(o, key) ==
  [val |-> MapGet(o, key),
   rest |-> SelectSeq(o, LAMBDA e : e.k # key)]

-----------------------------------------------------------------------------
(* Exports normalizer                                                      *)

RECURSIVE SugarLoop(_, _, _, _)
\* the for loop of is_conditional_exports_main_sugar over exports_obj.keys()
SugarLoop(exports_obj, idx, is_conditional_sugar, i) ==
  IF idx > Len(exports_obj) THEN [panic |-> FALSE, val |-> is_conditional_sugar]
  ELSE LET key == exports_obj[idx].k
           cur_is_conditional_sugar == key = <<>> \/ ~StartsWith(key, STR_dot)
       IN  IF i = 0
           THEN SugarLoop(exports_obj, idx + 1, cur_is_conditional_sugar, i + 1)
           ELSE IF is_conditional_sugar # cur_is_conditional_sugar
           THEN [panic |-> TRUE]
           ELSE SugarLoop(exports_obj, idx + 1, is_conditional_sugar, i)

\* a plausible slip: only the first key decides, later keys are not compared
is_conditional_exports_main_sugar_first_key(exports) ==
  IF exports.t = "string" \/ exports.t = "array" THEN [panic |-> FALSE, val |-> TRUE]
  ELSE IF exports.t = "null" \/ exports.t # "object" THEN [panic |-> FALSE, val |-> FALSE]
  ELSE IF exports.o = <<>> THEN [panic |-> FALSE, val |-> FALSE]
  ELSE [panic |-> FALSE,
        val |-> exports.o[1].k = <<>> \/ ~StartsWith(exports.o[1].k, STR_dot)]

\* is_conditional_exports_main_sugar: a bool, or the panic
is_conditional_exports_main_sugar(exports) ==
  IF exports.t = "string" \/ exports.t = "array" THEN [panic |-> FALSE, val |-> TRUE]
  ELSE IF exports.t = "null" \/ exports.t # "object" THEN [panic |-> FALSE, val |-> FALSE]
  ELSE SugarLoop(exports.o, 1, FALSE, 0)

-----------------------------------------------------------------------------
(* Manifest builder                                                        *)

\* load_from_value::map_object
map_object(value) == IF value.t = "object" THEN Some(value.o) ELSE None

\* load_from_value::map_string
map_string(value) ==
  IF value.t = "string" THEN Some(value.s)
  ELSE IF value.t = "number" THEN Some(NumberToString(value.n))
  ELSE None

\* load_from_value::map_array
map_array(value) == IF value.t = "array" THEN Some(value.a) ELSE None

RECURSIVE StringMapLoop(_, _, _)
\* parse_string_map: for (k, v) in map { if let Some(v) = map_string(v) { insert } }
StringMapLoop(map, i, result) ==
  IF i > Len(map) THEN result
  ELSE LET v == map_string(map[i].v)
       IN  StringMapLoop(map, i + 1,
             IF v.some THEN Append(result, [k |-> map[i].k, v |-> v.val]) ELSE result)

\* load_from_value::parse_string_map
parse_string_map(value) ==
  IF value.t = "object" THEN Some(StringMapLoop(value.o, 1, <<>>)) ELSE None

RECURSIVE StringArrayLoop(_, _, _)
\* parse_string_array: for v in value { if let Some(v) = map_string(v) { push } }
StringArrayLoop(value, i, result) ==
  IF i > Len(value) THEN result
  ELSE LET v == map_string(value[i])
       IN  StringArrayLoop(value, i + 1, IF v.some THEN Append(result, v.val) ELSE result)

\* load_from_value::parse_string_array
parse_string_array(value) ==
  LET arr == map_array(value)
  IN  IF arr.some THEN Some(StringArrayLoop(arr.val, 1, <<>>)) ELSE None

\* Option::and_then with each of the functions above
AndThenMapObject(opt) == IF opt.some THEN map_object(opt.val) ELSE None
AndThenMapString(opt) == IF opt.some THEN map_string(opt.val) ELSE None
AndThenParseStringMap(opt) == IF opt.some THEN parse_string_map(opt.val) ELSE None
AndThenParseStringArray(opt) == IF opt.some THEN parse_string_array(opt.val) ELSE None

\* the exports field: remove("exports").and_then(..), or the normalizer's panic
NormalizeExports(exports_val) ==
  IF ~exports_val.some THEN [panic |-> FALSE, val |-> None]
  ELSE LET exports == exports_val.val
           sugar == is_conditional_exports_main_sugar(exports)
       IN  IF sugar.panic THEN [panic |-> TRUE]
           ELSE IF sugar.val
           THEN [panic |-> FALSE, val |-> Some(<<[k |-> STR_dot, v |-> exports]>>)]
           ELSE [panic |-> FALSE, val |-> map_object(exports)]

\* the type field: "module" and "commonjs" pass, all else is "none"
NormalizeType(type_val) ==
  IF type_val.some
  THEN IF type_val.val.t = "string"
       THEN IF type_val.val.s # STR_module /\ type_val.val.s # STR_commonjs
            THEN STR_none
            ELSE type_val.val.s
       ELSE STR_none
  ELSE STR_none

\* the types field: remove("typings").or_else(|| remove("types")).and_then(map_string)
TypesField(typings_val, types_val) ==
  AndThenMapString(IF typings_val.some THEN typings_val ELSE types_val)

\* PackageJson::load_from_value: [panic |-> TRUE], or the manifest
load_from_value(path, package_json) ==
  LET o0 == IF package_json.t = "object" THEN package_json.o ELSE <<>>
      r_imports == MapRemove(o0, STR_imports)
      r_main == MapRemove(r_imports.rest, STR_main)
      r_module == MapRemove(r_main.rest, STR_module)
      r_name == MapRemove(r_module.rest, STR_name)
      r_version == MapRemove(r_name.rest, STR_version)
      r_type == MapRemove(r_version.rest, STR_type)
      r_bin == MapRemove(r_type.rest, STR_bin)
      r_exports == MapRemove(r_bin.rest, STR_exports)
      exports == NormalizeExports(r_exports.val)
      r_deps == MapRemove(r_exports.rest, STR_dependencies)
      r_dev == MapRemove(r_deps.rest, STR_devDependencies)
      r_scripts == MapRemove(r_dev.rest, STR_scripts)
      r_typings == MapRemove(r_scripts.rest, STR_typings)
      r_types == MapRemove(r_typings.rest, STR_types)
      r_workspaces == MapRemove(r_types.rest, STR_workspaces)
  IN  IF exports.panic THEN [panic |-> TRUE]
      ELSE [panic |-> FALSE,
            pj |-> [path |-> path,
                    main |-> AndThenMapString(r_main.val),
                    name |-> AndThenMapString(r_name.val),
                    version |-> AndThenMapString(r_version.val),
                    module |-> AndThenMapString(r_module.val),
                    typ |-> NormalizeType(r_type.val),
                    types |-> TypesField(r_typings.val, r_types.val),
                    exports |-> exports.val,
                    imports |-> AndThenMapObject(r_imports.val),
                    bin |-> r_bin.val,
                    dependencies |-> AndThenParseStringMap(r_deps.val),
                    dev_dependencies |-> AndThenParseStringMap(r_dev.val),
                    scripts |-> AndThenParseStringMap(r_scripts.val),
                    workspaces |-> AndThenParseStringArray(r_workspaces.val),
                    resolved_deps |-> EmptyCell]]

\* PackageJson::main
PackageJson_main(pj, referrer_kind) ==
  LET main == IF referrer_kind = "Esm" /\ pj.typ = STR_module
              THEN IF pj.module.some THEN pj.module ELSE pj.main
              ELSE pj.main
      trimmed == IF main.some THEN Some(Trim(main.val)) ELSE None
  IN  IF trimmed.some /\ trimmed.val # <<>> THEN trimmed ELSE None

\* Serialize for Value, Map<String, Value>, String, IndexMap<String, String>
\* and Vec<String>
SerValue(v) == v
SerMap(m) == JObj(m)
SerString(str) == JStr(str)
SerStringMap(m) == JObj([i \in 1..Len(m) |-> [k |-> m[i].k, v |-> JStr(m[i].v)]])
SerStringVec(a) == JArr([i \in 1..Len(a) |-> JStr(a[i])])

\* Serialize for Option<T>: null, or the value's own serialization
SerOptValue(opt) == IF opt.some THEN SerValue(opt.val) ELSE JNull
SerOptMap(opt) == IF opt.some THEN SerMap(opt.val) ELSE JNull
SerOptString(opt) == IF opt.some THEN SerString(opt.val) ELSE JNull
SerOptStringMap(opt) == IF opt.some THEN SerStringMap(opt.val) ELSE JNull
SerOptStringVec(opt) == IF opt.some THEN SerStringVec(opt.val) ELSE JNull

\* the fields #[derive(Serialize)] #[serde(rename_all = "camelCase")] writes
\* for PackageJson, in declaration order
SerializeFields(pj) ==
  <<[k |-> STR_exports, v |-> SerOptMap(pj.exports)],
    [k |-> STR_imports, v |-> SerOptMap(pj.imports)],
    [k |-> STR_bin, v |-> SerOptValue(pj.bin)],
    [k |-> STR_main, v |-> SerOptString(pj.main)],
    [k |-> STR_module, v |-> SerOptString(pj.module)],
    [k |-> STR_name, v |-> SerOptString(pj.name)],
    [k |-> STR_version, v |-> SerOptString(pj.version)],
    [k |-> STR_type, v |-> SerString(pj.typ)],
    [k |-> STR_types, v |-> SerOptString(pj.types)],
    [k |-> STR_dependencies, v |-> SerOptStringMap(pj.dependencies)],
    [k |-> STR_devDependencies, v |-> SerOptStringMap(pj.dev_dependencies)],
    [k |-> STR_scripts, v |-> SerOptStringMap(pj.scripts)],
    [k |-> STR_workspaces, v |-> SerOptStringVec(pj.workspaces)]>>

\* a plausible slip: the derive without #[serde(skip)] on path
Serialize_with_path(pj) ==
  JObj(<<[k |-> STR_path, v |-> SerString(pj.path)]>> \o SerializeFields(pj))

\* serde_json::to_value(&package_json): path and resolved_deps are skipped
Serialize(pj) == JObj(SerializeFields(pj))

-----------------------------------------------------------------------------
(* Inputs of the dependency resolver                                       *)

\* longest remainder drawn after a scheme prefix
MaxRem == 3
\* most entries in a raw dependency map
MaxDeps == 2
\* callers sharing one manifest, and calls each makes
NumCallers == 2
MaxCalls == 2

Callers == 1..NumCallers

RECURSIVE SeqsUpTo(_, _)
\* all sequences over S of length at most n
SeqsUpTo(S, n) ==
  IF n = 0 THEN {<<>>}
  ELSE LET shorter == SeqsUpTo(S, n - 1)
       IN  shorter \cup {Append(s, c) : s \in shorter, c \in S}

Aliases == {<<"a">>, <<"b">>, <<"c">>}
RemChars == {"a", "@", "~", "^", ":", "%"}
Prefixes ==
  { <<>>, STR_workspace, STR_file, STR_git, STR_http, STR_https, STR_npm,
    <<"w", "o", "r", "k", "s", "p", "a", "c", "e">>, <<"f", "i", "l", "e">>,
    <<"n", "p", "m">>, STR_workspace \o STR_npm, STR_npm \o STR_file }
\* every dependency value the single-entry manifests range over
EntryValues == {p \o r : p \in Prefixes, r \in SeqsUpTo(RemChars, MaxRem)}
\* the values of the multi-entry manifests: one that parses, one malformed
\* requirement, one unsupported scheme
DepValues == {<<"1">>, <<"%">>, STR_git \o <<"x">>}

\* IndexMap<String, String>: distinct keys, any order
StringMaps ==
  { m \in SeqsUpTo([k : Aliases, v : DepValues], MaxDeps) :
      \A i, j \in 1..Len(m) : m[i].k = m[j].k => i = j }
OptStringMaps == {None} \cup {Some(m) : m \in StringMaps}

\* the devDependencies the multi-entry manifests range over: absent, empty
\* or one entry, enough to shadow, to complement or to miss a dependencies key
OptDevStringMaps == {None} \cup {Some(m) : m \in {n \in StringMaps : Len(n) <= 1}}

\* manifests resolved by one caller
ManyEntryPkgs ==
  [dependencies : OptStringMaps, dev_dependencies : OptDevStringMaps]
OneEntryPkgs ==
  { [dependencies |-> Some(<<[k |-> <<"a">>, v |-> val]>>), dev_dependencies |-> None] :
      val \in EntryValues }
\* manifests shared by all callers
SharedPkgs ==
  { [dependencies |-> None, dev_dependencies |-> None],
    [dependencies |-> Some(<<[k |-> <<"a">>, v |-> <<"1">>], [k |-> <<"b">>, v |-> <<"%">>]>>),
     dev_dependencies |-> Some(<<[k |-> <<"b">>, v |-> STR_git \o <<"x">>]>>)],
    [dependencies |-> Some(<<[k |-> <<"c">>, v |-> STR_workspace \o STR_caret]>>),
     dev_dependencies |-> Some(<<>>)] }

-----------------------------------------------------------------------------
(* Inputs of the manifest builder                                          *)

\* most keys of an exports object, most elements of a workspaces array
MaxExportKeys == 3
MaxArr == 3

DocPath == <<"/", "p">>
S_m == <<".", "/", "m">>

\* an object entry, when the value is present
Entry(key, opt) == IF opt.some THEN <<[k |-> key, v |-> opt.val]>> ELSE <<>>
Obj1(key, value) == JObj(<<[k |-> key, v |-> value]>>)
Present(S) == {Some(v) : v \in S}

\* exports values of every shape; objects over keys that start with '.', keys
\* that do not, and the empty key
ExportKeys == {STR_dot, <<".", "/", "a">>, <<"a">>, <<>>}
ExportObjects ==
  { JObj(o) : o \in { m \in SeqsUpTo([k : ExportKeys, v : {JStr(S_m)}], MaxExportKeys) :
                        \A i, j \in 1..Len(m) : m[i].k = m[j].k => i = j } }
ExportsValues ==
  {JNull, JBool(TRUE), JBool(FALSE), JNum(7), JStr(S_m), JArr(<<>>),
   JArr(<<JStr(S_m), JNum(7)>>)} \cup ExportObjects
ExportsDocs ==
  {Obj1(STR_exports, v) : v \in ExportsValues} \cup {JObj(<<>>), JArr(<<>>), JNull}

\* type, main and module: absent, blank, padded, plain, numeric
TypeChoices ==
  {None} \cup Present({JStr(STR_module), JStr(STR_commonjs), JStr(<<"x">>), JNum(7)})
MainChoices ==
  {None} \cup Present({JStr(<<>>), JStr(<<" ">>), JStr(<<"m">>), JStr(<<" ", "m", "\t">>),
                       JNum(7)})
ModuleChoices ==
  {None} \cup Present({JStr(<<>>), JStr(<<"\n", " ">>), JStr(<<"e">>), JStr(<<"e", " ">>),
                       JNum(12)})
MainDocs ==
  { JObj(Entry(STR_type, t) \o Entry(STR_main, m) \o Entry(STR_module, e)) :
      t \in TypeChoices, m \in MainChoices, e \in ModuleChoices }

\* typings and types: absent, string, number, and the shapes that do not coerce
TypingsChoices ==
  {None} \cup Present({JStr(<<"a">>), JStr(<<>>), JNum(12), JNull, JBool(TRUE),
                       JObj(<<>>), JArr(<<>>)})
TypesChoices ==
  {None} \cup Present({JStr(<<"b">>), JStr(<<>>), JNum(7), JNull, JBool(FALSE),
                       JObj(<<>>), JArr(<<>>)})
TypesDocs ==
  { JObj(Entry(STR_typings, a) \o Entry(STR_types, b)) :
      a \in TypingsChoices, b \in TypesChoices }
    \cup
  { JObj(Entry(STR_types, b) \o Entry(STR_typings, a)) :
      a \in TypingsChoices, b \in TypesChoices }

\* workspaces: every shape, and arrays of elements of every shape
ArrayElems ==
  {JStr(<<"w">>), JStr(<<"v">>), JNum(7), JBool(TRUE), JNull, JArr(<<>>), JObj(<<>>)}
WorkspacesValues ==
  {JNull, JBool(TRUE), JNum(7), JStr(<<"w">>), JObj(<<>>)}
    \cup {JArr(a) : a \in SeqsUpTo(ArrayElems, MaxArr)}
WorkspacesDocs == {Obj1(STR_workspaces, v) : v \in WorkspacesValues}

\* documents that hold every serialized key, two values of each accepted shape
StringMapChoices == {JObj(<<>>), Obj1(<<"a">>, JStr(<<"1">>))}
FullDocs ==
  { JObj(<<[k |-> STR_name, v |-> name], [k |-> STR_version, v |-> version],
           [k |-> STR_exports, v |-> exports], [k |-> STR_bin, v |-> bin],
           [k |-> STR_types, v |-> types], [k |-> STR_imports, v |-> imports],
           [k |-> STR_main, v |-> main], [k |-> STR_module, v |-> module],
           [k |-> STR_type, v |-> type], [k |-> STR_dependencies, v |-> deps],
           [k |-> STR_devDependencies, v |-> JObj(<<>>)],
           [k |-> STR_scripts, v |-> scripts],
           [k |-> STR_workspaces, v |-> workspaces]>>) :
      name \in {JStr(<<"n">>)}, version \in {JStr(<<"1">>), JStr(<<>>)},
      exports \in {JObj(<<>>), Obj1(STR_dot, JStr(S_m))},
      bin \in {JStr(S_m), Obj1(<<"b">>, JNull)},
      types \in {JStr(<<"b">>)},
      imports \in {JObj(<<>>), Obj1(<<"#">>, JStr(S_m))},
      main \in {JStr(S_m), JStr(<<" ">>)}, module \in {JStr(<<"e">>)},
      type \in {JStr(STR_module), JStr(STR_commonjs), JStr(STR_none)},
      deps \in StringMapChoices, scripts \in StringMapChoices,
      workspaces \in {JArr(<<>>), JArr(<<JStr(<<"w">>), JStr(<<"v">>)>>)} }

\* the document of test_deserialize_serialize
TestDoc ==
  JObj(<<[k |-> STR_name, v |-> JStr(<<"n">>)], [k |-> STR_version, v |-> JStr(<<"1">>)],
         [k |-> STR_exports, v |-> Obj1(STR_dot, JStr(S_m))], [k |-> STR_bin, v |-> JStr(S_m)],
         [k |-> STR_types, v |-> JStr(<<"b">>)],
         [k |-> STR_imports, v |-> Obj1(<<"#">>, JStr(S_m))],
         [k |-> STR_main, v |-> JStr(S_m)], [k |-> STR_module, v |-> JStr(<<"e">>)],
         [k |-> STR_type, v |-> JStr(STR_module)],
         [k |-> STR_dependencies, v |-> Obj1(<<"a">>, JStr(<<"1">>))],
         [k |-> STR_devDependencies, v |-> Obj1(<<"a">>, JStr(<<"1">>))],
         [k |-> STR_scripts, v |-> Obj1(<<"t">>, JStr(<<"e">>))],
         [k |-> STR_workspaces, v |-> JArr(<<JStr(<<"w">>), JStr(<<"v">>)>>)]>>)

\* the test's document with one key left out, or with one value changed within
\* the shape its field accepts
PartialDocs ==
  { JObj(SelectSeq(TestDoc.o, LAMBDA e : e.k # TestDoc.o[i].k)) : i \in 1..Len(TestDoc.o) }
    \cup
  { JObj([i \in 1..Len(TestDoc.o) |->
            IF TestDoc.o[i].k = c[1] THEN [k |-> c[2], v |-> c[3]] ELSE TestDoc.o[i]]) :
      c \in { <<STR_types, STR_typings, JStr(<<"b">>)>>,
              <<STR_type, STR_type, JStr(<<"x">>)>>,
              <<STR_version, STR_version, JNum(1)>>,
              <<STR_bin, STR_bin, JNull>>,
              <<STR_name, STR_name, JNull>> } }
    \cup {TestDoc}

Docs == ExportsDocs \cup MainDocs \cup TypesDocs \cup WorkspacesDocs \cup FullDocs
          \cup PartialDocs

-----------------------------------------------------------------------------
(* load_from_value, main and serialization of one manifest                 *)

NotBuilt == [state |-> "none"]
NoMain == [asked |-> FALSE]
NoSer == [done |-> FALSE]

IdleValue ==
  /\ doc = JNull
  /\ built = NotBuilt
  /\ mainOut = NoMain
  /\ ser = NoSer

InitValue ==
  /\ doc \in Docs
  /\ built = NotBuilt
  /\ mainOut = NoMain
  /\ ser = NoSer

\* PackageJson::load_from_value(path, doc)
LoadFromValue ==
  /\ built = NotBuilt
  /\ built' = LET r == load_from_value(DocPath, doc)
              IN  IF r.panic THEN [state |-> "panic"] ELSE [state |-> "ok", pj |-> r.pj]
  /\ UNCHANGED <<doc, mainOut, ser>>
  /\ UNCHANGED notValue

\* package_json.main(referrer_kind)
Main(referrer_kind) ==
  /\ built.state = "ok"
  /\ mainOut = NoMain
  /\ mainOut' = [asked |-> TRUE, kind |-> referrer_kind,
                 result |-> PackageJson_main(built.pj, referrer_kind)]
  /\ UNCHANGED <<doc, built, ser>>
  /\ UNCHANGED notValue

\* serde_json::to_value(&package_json)
SerializeManifest ==
  /\ built.state = "ok"
  /\ ser = NoSer
  /\ ser' = [done |-> TRUE, value |-> Serialize(built.pj)]
  /\ UNCHANGED <<doc, built, mainOut>>
  /\ UNCHANGED notValue

NextValue ==
  \/ LoadFromValue
  \/ \E referrer_kind \in {"Esm", "Cjs"} : Main(referrer_kind)
  \/ SerializeManifest

-----------------------------------------------------------------------------
(* resolve_local_package_json_deps: OnceLock::get_or_init around get_map   *)

EmptyDeps == [dependencies |-> <<>>, dev_dependencies |-> <<>>]
NoLookup == [asked |-> FALSE]

\* a plausible slip: check-then-initialize without excluding a running initializer
MayInitializeRacy(cell) == cell.state # "complete"

\* get_or_init runs the closure only for the caller that finds the cell
\* uninitialized while no other initializer is running
MayInitialize(cell) == cell.state = "incomplete"

InitDeps ==
  /\ \/ pkg \in ManyEntryPkgs \cup OneEntryPkgs /\ active = {1}
     \/ pkg \in SharedPkgs /\ active = Callers
  /\ resolved_deps = EmptyCell
  /\ cpc = [t \in Callers |-> "idle"]
  /\ clocal = [t \in Callers |-> EmptyDeps]
  /\ cret = [t \in Callers |-> <<>>]
  /\ initRuns = 0
  /\ waited = {}
  /\ nextRc = 1
  /\ lookup = NoLookup

\* entry of resolve_local_package_json_deps: self.resolved_deps.get_or_init(..)
Call(t) ==
  /\ t \in active
  /\ cpc[t] = "idle"
  /\ Len(cret[t]) < MaxCalls
  /\ IF resolved_deps.state = "complete"
     THEN /\ cret' = [cret EXCEPT ![t] = Append(@, resolved_deps.val)]
          /\ UNCHANGED <<resolved_deps, cpc, initRuns, waited>>
     ELSE IF MayInitialize(resolved_deps)
     THEN /\ resolved_deps' = [state |-> "running"]
          /\ cpc' = [cpc EXCEPT ![t] = "deps"]
          /\ initRuns' = initRuns + 1
          /\ UNCHANGED <<cret, waited>>
     ELSE /\ cpc' = [cpc EXCEPT ![t] = "blocked"]
          /\ waited' = waited \cup {t}
          /\ UNCHANGED <<resolved_deps, cret, initRuns>>
  /\ UNCHANGED <<pkg, active, clocal, nextRc, lookup>>
  /\ UNCHANGED notDeps

\* closure: dependencies: get_map(self.dependencies.as_ref())
ClosureDeps(t) ==
  /\ cpc[t] = "deps"
  /\ clocal' = [clocal EXCEPT ![t].dependencies = get_map(pkg.dependencies)]
  /\ cpc' = [cpc EXCEPT ![t] = "dev"]
  /\ UNCHANGED <<pkg, resolved_deps, active, cret, initRuns, waited, nextRc, lookup>>
  /\ UNCHANGED notDeps

\* closure: dev_dependencies: get_map(self.dev_dependencies.as_ref())
ClosureDev(t) ==
  /\ cpc[t] = "dev"
  /\ clocal' = [clocal EXCEPT ![t].dev_dependencies = get_map(pkg.dev_dependencies)]
  /\ cpc' = [cpc EXCEPT ![t] = "store"]
  /\ UNCHANGED <<pkg, resolved_deps, active, cret, initRuns, waited, nextRc, lookup>>
  /\ UNCHANGED notDeps

\* PackageJsonDepsRc::new(..) and the cell's one write
Store(t) ==
  /\ cpc[t] = "store"
  /\ resolved_deps' =
       [state |-> "complete",
        val |-> [rc |-> nextRc,
                 dependencies |-> clocal[t].dependencies,
                 dev_dependencies |-> clocal[t].dev_dependencies]]
  /\ nextRc' = nextRc + 1
  /\ cpc' = [cpc EXCEPT ![t] = "ret"]
  /\ UNCHANGED <<pkg, active, clocal, cret, initRuns, waited, lookup>>
  /\ UNCHANGED notDeps

\* get_or_init returns the cell's value: to the initializer, and to a caller
\* that waited for the running initializer
Return(t) ==
  /\ \/ cpc[t] = "ret"
     \/ cpc[t] = "blocked" /\ resolved_deps.state = "complete"
  /\ cret' = [cret EXCEPT ![t] = Append(@, resolved_deps.val)]
  /\ cpc' = [cpc EXCEPT ![t] = "idle"]
  /\ UNCHANGED <<pkg, resolved_deps, active, clocal, initRuns, waited, nextRc, lookup>>
  /\ UNCHANGED notDeps

\* deps.get(alias) on a set a call returned
Get(t, alias) ==
  /\ t \in active
  /\ cret[t] # <<>>
  /\ lookup = NoLookup
  /\ lookup' = [asked |-> TRUE, alias |-> alias, deps |-> cret[t][1],
                result |-> PackageJsonDeps_get(cret[t][1], alias)]
  /\ UNCHANGED <<pkg, resolved_deps, active, cpc, clocal, cret, initRuns, waited, nextRc>>
  /\ UNCHANGED notDeps

NextDeps ==
  \/ \E t \in Callers : Call(t)
  \/ \E t \in Callers : ClosureDeps(t)
  \/ \E t \in Callers : ClosureDev(t)
  \/ \E t \in Callers : Store(t)
  \/ \E t \in Callers : Return(t)
  \/ \E t \in Callers, alias \in Aliases : Get(t, alias)

-----------------------------------------------------------------------------
(* load_from_string and load_from_path                                     *)

\* longest file text, loaders sharing the cache, calls of load_from_path
MaxText == 2
NumLoaders == 2
MaxLoads == 2

Loaders == 1..NumLoaders
Paths == {<<"/", "p">>, <<"/", "q">>}
TextChars == {" ", "{", "}"}
FileTexts == SeqsUpTo(TextChars, MaxText)
IoErrors == {"NotFound"}
FileStates ==
  {[ok |-> FALSE, err |-> e] : e \in IoErrors} \cup {[ok |-> TRUE, text |-> x] : x \in FileTexts}

\* serde_json::from_str (external), on texts of braces and whitespace: such a
\* text is a JSON document exactly when its tokens are "{" "}", the empty object
from_str(source) ==
  IF SelectSeq(source, LAMBDA c : c \notin WhiteSpace) = <<"{", "}">>
  THEN [ok |-> TRUE, value |-> JObj(<<>>)]
  ELSE [ok |-> FALSE, err |-> [syntax |-> source]]

\* PackageJsonLoadError
IoError(path, source) == [kind |-> "Io", path |-> path, source |-> source]
DeserializeError(path, source) == [kind |-> "Deserialize", path |-> path, source |-> source]

\* the manifest of an empty or whitespace-only source
DefaultManifest(path) ==
  [path |-> path, main |-> None, name |-> None, version |-> None, module |-> None,
   typ |-> STR_none, types |-> None, exports |-> None, imports |-> None, bin |-> None,
   dependencies |-> None, dev_dependencies |-> None, scripts |-> None,
   workspaces |-> None, resolved_deps |-> EmptyCell]

\* PackageJson::load_from_string: a manifest, a Deserialize error, or the panic
load_from_string(path, source) ==
  IF Trim(source) = <<>>
  THEN [panic |-> FALSE, ok |-> TRUE, pj |-> DefaultManifest(path)]
  ELSE LET package_json == from_str(source)
       IN  IF ~package_json.ok
           THEN [panic |-> FALSE, ok |-> FALSE,
                 err |-> DeserializeError(path, package_json.err)]
           ELSE LET r == load_from_value(path, package_json.value)
                IN  IF r.panic THEN [panic |-> TRUE]
                    ELSE [panic |-> FALSE, ok |-> TRUE, pj |-> r.pj]

\* Result<PackageJsonRc, PackageJsonLoadError>
Ok(rc) == [ok |-> TRUE, rc |-> rc]
Err(e) == [ok |-> FALSE, err |-> e]
NoResult == [ok |-> FALSE, err |-> [kind |-> "pending"]]

InitLoad ==
  /\ fs \in [Paths -> FileStates]
  /\ fs[<<"/", "q">>] \in {[ok |-> FALSE, err |-> "NotFound"], [ok |-> TRUE, text |-> <<"{", "}">>]}
  /\ cache = [p \in Paths |-> None]
  /\ heap = <<>>
  /\ lpc = [t \in Loaders |-> "idle"]
  /\ lpath = [t \in Loaders |-> <<"/", "p">>]
  /\ lwith = [t \in Loaders |-> FALSE]
  /\ ltext = [t \in Loaders |-> <<>>]
  /\ lpkg = [t \in Loaders |-> 0]
  /\ lres = [t \in Loaders |-> NoResult]
  /\ llog = [t \in Loaders |-> <<>>]
  /\ loads = 0

IdleLoad ==
  /\ fs = [p \in Paths |-> [ok |-> FALSE, err |-> "NotFound"]]
  /\ cache = [p \in Paths |-> None]
  /\ heap = <<>>
  /\ lpc = [t \in Loaders |-> "idle"]
  /\ lpath = [t \in Loaders |-> <<"/", "p">>]
  /\ lwith = [t \in Loaders |-> FALSE]
  /\ ltext = [t \in Loaders |-> <<>>]
  /\ lpkg = [t \in Loaders |-> 0]
  /\ lres = [t \in Loaders |-> NoResult]
  /\ llog = [t \in Loaders |-> <<>>]
  /\ loads = 0

\* a call PackageJson::load_from_path(path, fs, maybe_cache) begins
Begin(t, path, with_cache) ==
  /\ lpc[t] = "idle"
  /\ loads < MaxLoads
  /\ loads' = loads + 1
  /\ lpc' = [lpc EXCEPT ![t] = "get"]
  /\ lpath' = [lpath EXCEPT ![t] = path]
  /\ lwith' = [lwith EXCEPT ![t] = with_cache]
  /\ ltext' = [ltext EXCEPT ![t] = <<>>]
  /\ lpkg' = [lpkg EXCEPT ![t] = 0]
  /\ lres' = [lres EXCEPT ![t] = NoResult]
  /\ llog' = [llog EXCEPT ![t] = <<>>]
  /\ UNCHANGED <<fs, cache, heap>>
  /\ UNCHANGED notLoad

\* a plausible slip: the cache is asked but its answer is not returned, the
\* file is read and the manifest built again
CacheGetIgnored(t) ==
  /\ lpc[t] = "get"
  /\ llog' = [llog EXCEPT ![t] =
                IF lwith[t]
                THEN Append(@, [op |-> "get", path |-> lpath[t], found |-> cache[lpath[t]]])
                ELSE @]
  /\ lpc' = [lpc EXCEPT ![t] = "read"]
  /\ UNCHANGED <<fs, cache, heap, lpath, lwith, ltext, lpkg, lres, loads>>
  /\ UNCHANGED notLoad

\* if let Some(item) = maybe_cache.and_then(|c| c.get(path)) { Ok(item) }
CacheGet(t) ==
  /\ lpc[t] = "get"
  /\ LET item == IF lwith[t] THEN cache[lpath[t]] ELSE None
     IN  /\ llog' = [llog EXCEPT ![t] =
                       IF lwith[t]
                       THEN Append(@, [op |-> "get", path |-> lpath[t], found |-> cache[lpath[t]]])
                       ELSE @]
         /\ IF item.some
            THEN /\ lres' = [lres EXCEPT ![t] = Ok(item.val)]
                 /\ lpc' = [lpc EXCEPT ![t] = "done"]
            ELSE /\ lpc' = [lpc EXCEPT ![t] = "read"]
                 /\ UNCHANGED lres
  /\ UNCHANGED <<fs, cache, heap, lpath, lwith, ltext, lpkg, loads>>
  /\ UNCHANGED notLoad

\* a plausible slip: a failed read is taken for an empty file
ReadSwallow(t) ==
  /\ lpc[t] = "read"
  /\ llog' = [llog EXCEPT ![t] = Append(@, [op |-> "read", path |-> lpath[t]])]
  /\ ltext' = [ltext EXCEPT ![t] = IF fs[lpath[t]].ok THEN fs[lpath[t]].text ELSE <<>>]
  /\ lpc' = [lpc EXCEPT ![t] = "build"]
  /\ UNCHANGED <<fs, cache, heap, lpath, lwith, lpkg, lres, loads>>
  /\ UNCHANGED notLoad

\* match fs.read_to_string_lossy(path): Ok(file_text), or Err(err) => Err(Io { .. })
Read(t) ==
  /\ lpc[t] = "read"
  /\ llog' = [llog EXCEPT ![t] = Append(@, [op |-> "read", path |-> lpath[t]])]
  /\ IF fs[lpath[t]].ok
     THEN /\ ltext' = [ltext EXCEPT ![t] = fs[lpath[t]].text]
          /\ lpc' = [lpc EXCEPT ![t] = "build"]
          /\ UNCHANGED lres
     ELSE /\ lres' = [lres EXCEPT ![t] = Err(IoError(lpath[t], fs[lpath[t]].err))]
          /\ lpc' = [lpc EXCEPT ![t] = "done"]
          /\ UNCHANGED ltext
  /\ UNCHANGED <<fs, cache, heap, lpath, lwith, lpkg, loads>>
  /\ UNCHANGED notLoad

\* PackageJson::load_from_string(path, &file_text)?, then crate::sync::new_rc;
\* without a cache the new instance is returned at once
Build(t) ==
  /\ lpc[t] = "build"
  /\ LET r == load_from_string(lpath[t], ltext[t])
     IN  IF r.panic
         THEN /\ lpc' = [lpc EXCEPT ![t] = "panic"]
              /\ UNCHANGED <<heap, lpkg, lres>>
         ELSE IF ~r.ok
         THEN /\ lres' = [lres EXCEPT ![t] = Err(r.err)]
              /\ lpc' = [lpc EXCEPT ![t] = "done"]
              /\ UNCHANGED <<heap, lpkg>>
         ELSE /\ heap' = Append(heap, r.pj)
              /\ lpkg' = [lpkg EXCEPT ![t] = Len(heap) + 1]
              /\ IF lwith[t]
                 THEN /\ lpc' = [lpc EXCEPT ![t] = "set"]
                      /\ UNCHANGED lres
                 ELSE /\ lres' = [lres EXCEPT ![t] = Ok(Len(heap) + 1)]
                      /\ lpc' = [lpc EXCEPT ![t] = "done"]
  /\ UNCHANGED <<fs, cache, lpath, lwith, ltext, llog, loads>>
  /\ UNCHANGED notLoad

\* a plausible slip: the instance is returned without being put in the cache
CacheSetForgotten(t) ==
  /\ lpc[t] = "set"
  /\ lres' = [lres EXCEPT ![t] = Ok(lpkg[t])]
  /\ lpc' = [lpc EXCEPT ![t] = "done"]
  /\ UNCHANGED <<fs, cache, heap, lpath, lwith, ltext, lpkg, llog, loads>>
  /\ UNCHANGED notLoad

\* cache.set(path.to_path_buf(), pkg_json.clone()); Ok(pkg_json). The log
\* entry notes what cache.get(path) yields right after the set.
CacheSet(t) ==
  /\ lpc[t] = "set"
  /\ cache' = [cache EXCEPT ![lpath[t]] = Some(lpkg[t])]
  /\ llog' = [llog EXCEPT ![t] =
                Append(@, [op |-> "set", path |-> lpath[t], rc |-> lpkg[t],
                           then |-> cache'[lpath[t]]])]
  /\ lres' = [lres EXCEPT ![t] = Ok(lpkg[t])]
  /\ lpc' = [lpc EXCEPT ![t] = "done"]
  /\ UNCHANGED <<fs, heap, lpath, lwith, ltext, lpkg, loads>>
  /\ UNCHANGED notLoad

\* the caller takes the Result and the call's locals are gone; the loader may
\* call again
Finish(t) ==
  /\ lpc[t] = "done"
  /\ lpc' = [lpc EXCEPT ![t] = "idle"]
  /\ lpath' = [lpath EXCEPT ![t] = <<"/", "p">>]
  /\ lwith' = [lwith EXCEPT ![t] = FALSE]
  /\ ltext' = [ltext EXCEPT ![t] = <<>>]
  /\ lpkg' = [lpkg EXCEPT ![t] = 0]
  /\ lres' = [lres EXCEPT ![t] = NoResult]
  /\ llog' = [llog EXCEPT ![t] = <<>>]
  /\ UNCHANGED <<fs, cache, heap, loads>>
  /\ UNCHANGED notLoad

NextLoad ==
  \/ \E t \in Loaders, path \in Paths, with_cache \in BOOLEAN : Begin(t, path, with_cache)
  \/ \E t \in Loaders : CacheGet(t)
  \/ \E t \in Loaders : Read(t)
  \/ \E t \in Loaders : Build(t)
  \/ \E t \in Loaders : CacheSet(t)
  \/ \E t \in Loaders : Finish(t)

IdleDeps ==
  /\ pkg = [dependencies |-> None, dev_dependencies |-> None]
  /\ resolved_deps = EmptyCell
  /\ active = {}
  /\ cpc = [t \in Callers |-> "idle"]
  /\ clocal = [t \in Callers |-> EmptyDeps]
  /\ cret = [t \in Callers |-> <<>>]
  /\ initRuns = 0
  /\ waited = {}
  /\ nextRc = 1
  /\ lookup = NoLookup

\* a manifest shared by callers that resolve its dependencies
InitSpecDeps == InitDeps /\ IdleValue /\ IdleLoad
SpecDeps == InitSpecDeps /\ [][NextDeps]_vars

\* a JSON value built into a manifest, queried and serialized
InitSpecValue == InitValue /\ IdleDeps /\ IdleLoad
SpecValue == InitSpecValue /\ [][NextValue]_vars

\* loaders sharing a file system and a cache
InitSpecLoad == InitLoad /\ IdleDeps /\ IdleValue
SpecLoad == InitSpecLoad /\ [][NextLoad]_vars

-----------------------------------------------------------------------------
(* Claims about the dependency resolver, checked under SpecDeps            *)

\* the raw map behind an Option<IndexMap<String, String>> (empty when absent)
RawMap(opt) == IF opt.some THEN opt.val ELSE <<>>

\* every value some call has returned
Returned == UNION {{cret[t][i] : i \in 1..Len(cret[t])} : t \in Callers}

\* C1: for one manifest and any interleaving of callers, the classification
\* closure runs at most once, and every call, first or later, returns the one
\* completed set held by the cell: same allocation, both maps fully built.
C1_AtMostOnceSameCompleteSet ==
  /\ initRuns <= 1
  /\ \A t \in Callers : \A i \in 1..Len(cret[t]) :
       /\ resolved_deps.state = "complete"
       /\ cret[t][i] = resolved_deps.val
       /\ cret[t][i].dependencies = get_map(pkg.dependencies)
       /\ cret[t][i].dev_dependencies = get_map(pkg.dev_dependencies)
       /\ Len(cret[t][i].dependencies) = Len(RawMap(pkg.dependencies))
       /\ Len(cret[t][i].dev_dependencies) = Len(RawMap(pkg.dev_dependencies))
  /\ \A t, u \in Callers : \A i \in 1..Len(cret[t]) : \A j \in 1..Len(cret[u]) :
       cret[t][i].rc = cret[u][j].rc

\* C1 witness: callers raced on the first access (one waited for the running
\* initializer) and every caller's first and later calls have returned.
C1_Witness ==
  /\ active = Callers
  /\ waited # {}
  /\ \A t \in Callers : Len(cret[t]) = MaxCalls
  /\ Len(RawMap(pkg.dependencies)) > 0

\* --- C5 -------------------------------------------------------------------

C5_After(value, prefix) == SubSeq(value, Len(prefix) + 1, Len(value))

\* the outcome of handing a requirement text to the version-requirement grammar,
\* as a Version Requirement for `name`
C5_AsReq(name, text) ==
  IF parse_from_npm(text).ok THEN OkReq(name, parse_from_npm(text).req)
  ELSE ErrVersionReq(parse_from_npm(text).err)

C5_Schemes == {<<"f", "i", "l", "e">>, <<"g", "i", "t">>, <<"h", "t", "t", "p">>,
               <<"h", "t", "t", "p", "s">>}

C5_Expected(alias, value) ==
  IF StartsWith(value, STR_workspace)
  THEN LET rem == C5_After(value, STR_workspace)
       IN  IF rem = <<"~">> THEN OkWorkspace(WsTilde)
           ELSE IF rem = <<"^">> THEN OkWorkspace(WsCaret)
           ELSE IF parse_from_npm(rem).ok
                THEN OkWorkspace(WsVersionReq(parse_from_npm(rem).req))
                ELSE ErrVersionReq(parse_from_npm(rem).err)
  ELSE IF \E sch \in C5_Schemes : StartsWith(value, sch \o <<":">>)
  THEN ErrUnsupported(CHOOSE sch \in C5_Schemes : StartsWith(value, sch \o <<":">>))
  ELSE IF StartsWith(value, STR_npm)
  THEN LET rem == C5_After(value, STR_npm)
           ats == {i \in 1..Len(rem) : rem[i] = "@"}
           last == CHOOSE i \in ats : \A j \in ats : j <= i
       IN  IF ats = {} \/ last = 1 THEN C5_AsReq(rem, <<"*">>)
           ELSE C5_AsReq(SubSeq(rem, 1, last - 1), SubSeq(rem, last + 1, Len(rem)))
  ELSE C5_AsReq(alias, value)

\* C5: every (alias, value) entry is classified by the precedence
\* workspace: > file:/git:/http:/https: > npm: > plain: workspace-tilde,
\* workspace-caret or the parsed remainder (or its parse failure); Unsupported
\* carrying exactly the scheme; for npm: the remainder split on its last '@'
\* (whole remainder with '*' when nothing precedes that '@' or there is none);
\* otherwise the alias with the value unchanged. The requirement text so
\* determined is what the grammar parses, and its failure is the entry's result.
C5_ClassificationPrecedence ==
  resolved_deps.state = "complete" =>
    /\ \A i \in 1..Len(RawMap(pkg.dependencies)) :
         resolved_deps.val.dependencies[i].v =
           C5_Expected(pkg.dependencies.val[i].k, pkg.dependencies.val[i].v)
    /\ \A i \in 1..Len(RawMap(pkg.dev_dependencies)) :
         resolved_deps.val.dev_dependencies[i].v =
           C5_Expected(pkg.dev_dependencies.val[i].k, pkg.dev_dependencies.val[i].v)

\* C5 witness: an npm: alias whose remainder holds two '@' has been classified
\* as a requirement on the name before the last '@'.
C5_Witness ==
  /\ resolved_deps.state = "complete"
  /\ pkg \in OneEntryPkgs
  /\ StartsWith(pkg.dependencies.val[1].v, STR_npm)
  /\ Cardinality(Positions(pkg.dependencies.val[1].v, "@")) = 2
  /\ resolved_deps.val.dependencies[1].v.ok
  /\ resolved_deps.val.dependencies[1].v.kind = "Req"
  /\ resolved_deps.val.dependencies[1].v.name # pkg.dependencies.val[1].k
  /\ Len(resolved_deps.val.dependencies[1].v.name) = 2

\* --- C6 -------------------------------------------------------------------

C6_Confined(raw, resolved) ==
  /\ Len(resolved) = Len(raw)
  /\ \A i \in 1..Len(raw) :
       /\ resolved[i].k = raw[i].k
       /\ resolved[i].v = parse_entry(raw[i].k, raw[i].v)

\* C6: a classification failure is confined to its entry: each resolved map has
\* the raw map's aliases in the raw map's order, each with the classification
\* of its own (alias, value) pair, whatever the other entries do; the closure
\* has no failing exit, so the set a call returns is always the full one.
C6_FailureConfinedToEntry ==
  /\ resolved_deps.state = "complete" =>
       /\ C6_Confined(RawMap(pkg.dependencies), resolved_deps.val.dependencies)
       /\ C6_Confined(RawMap(pkg.dev_dependencies), resolved_deps.val.dev_dependencies)
  /\ \A d \in Returned :
       /\ C6_Confined(RawMap(pkg.dependencies), d.dependencies)
       /\ C6_Confined(RawMap(pkg.dev_dependencies), d.dev_dependencies)

\* C6 witness: a returned map holds a failed entry followed by a resolved one.
C6_Witness ==
  \E d \in Returned :
    /\ Len(d.dependencies) = 2
    /\ ~d.dependencies[1].v.ok
    /\ d.dependencies[2].v.ok

\* --- C9 -------------------------------------------------------------------

C9_RawValue(opt, alias) ==
  LET raw == RawMap(opt)
  IN  raw[CHOOSE i \in 1..Len(raw) : raw[i].k = alias].v

C9_InRaw(opt, alias) == \E i \in 1..Len(RawMap(opt)) : RawMap(opt)[i].k = alias

C9_Entry(resolved, alias) ==
  resolved[CHOOSE i \in 1..Len(resolved) : resolved[i].k = alias].v

\* C9: the two maps are resolved independently and never merged: an alias in
\* both keeps, in each resolved map, the classification of that map's own
\* value; get(alias) answers the dependencies entry whenever the alias is a
\* key of dependencies (a failure included), the devDependencies entry only
\* when it is not, and absent when it is in neither.
C9_LookupDepsBeforeDev ==
  /\ \A d \in Returned : \A alias \in Aliases :
       /\ C9_InRaw(pkg.dependencies, alias) =>
            C9_Entry(d.dependencies, alias) =
              parse_entry(alias, C9_RawValue(pkg.dependencies, alias))
       /\ C9_InRaw(pkg.dev_dependencies, alias) =>
            C9_Entry(d.dev_dependencies, alias) =
              parse_entry(alias, C9_RawValue(pkg.dev_dependencies, alias))
  /\ lookup.asked =>
       lookup.result =
         IF C9_InRaw(pkg.dependencies, lookup.alias)
         THEN Some(parse_entry(lookup.alias, C9_RawValue(pkg.dependencies, lookup.alias)))
         ELSE IF C9_InRaw(pkg.dev_dependencies, lookup.alias)
         THEN Some(parse_entry(lookup.alias, C9_RawValue(pkg.dev_dependencies, lookup.alias)))
         ELSE None

\* C9 witness: an alias declared in both maps with different values, failing in
\* dependencies and resolving in devDependencies, has been looked up.
C9_Witness ==
  /\ lookup.asked
  /\ C9_InRaw(pkg.dependencies, lookup.alias)
  /\ C9_InRaw(pkg.dev_dependencies, lookup.alias)
  /\ ~parse_entry(lookup.alias, C9_RawValue(pkg.dependencies, lookup.alias)).ok
  /\ parse_entry(lookup.alias, C9_RawValue(pkg.dev_dependencies, lookup.alias)).ok
  /\ lookup.result.some

-----------------------------------------------------------------------------
(* Claims about the manifest builder, checked under SpecValue              *)

\* the raw value of a top-level key of the document, if the document is an
\* object that holds it
RawField(key) ==
  IF doc.t = "object" /\ \E i \in 1..Len(doc.o) : doc.o[i].k = key
  THEN Some(doc.o[CHOOSE i \in 1..Len(doc.o) : doc.o[i].k = key].v)
  ELSE None

\* --- C4 -------------------------------------------------------------------

C4_Dotted(o) == {i \in 1..Len(o) : Len(o[i].k) > 0 /\ o[i].k[1] = "."}
C4_Wrapped(value) == Some(<<[k |-> <<".">>, v |-> value]>>)

\* C4: the stored exports field is {".": value} for a string or an array;
\* absent for null, a boolean or a number; the object unchanged when it is
\* empty or every key starts with '.'; {".": object} when no key starts with
\* '.' (the empty key included); and for an object mixing both kinds of key,
\* wherever the first mismatch stands, the builder panics and yields no manifest.
C4_ExportsNormalization ==
  (built # NotBuilt /\ RawField(STR_exports).some) =>
    LET value == RawField(STR_exports).val
    IN  IF value.t \in {"string", "array"}
        THEN built.state = "ok" /\ built.pj.exports = C4_Wrapped(value)
        ELSE IF value.t \in {"null", "bool", "number"}
        THEN built.state = "ok" /\ built.pj.exports = None
        ELSE IF C4_Dotted(value.o) = 1..Len(value.o)
        THEN built.state = "ok" /\ built.pj.exports = Some(value.o)
        ELSE IF C4_Dotted(value.o) = {}
        THEN built.state = "ok" /\ built.pj.exports = C4_Wrapped(value)
        ELSE built.state = "panic"

\* C4 witness: an object whose first two keys start with '.' and whose third
\* does not has been rejected with the panic.
C4_Witness ==
  /\ built.state = "panic"
  /\ RawField(STR_exports).some
  /\ Len(RawField(STR_exports).val.o) = 3
  /\ C4_Dotted(RawField(STR_exports).val.o) = {1, 2}

\* --- C7 -------------------------------------------------------------------

C7_NonBlank(field) == field.some /\ \E i \in 1..Len(field.val) : field.val[i] \notin WhiteSpace

C7_Expected(pj, referrer_kind) ==
  IF referrer_kind = "Esm" /\ pj.typ = STR_module /\ C7_NonBlank(pj.module)
  THEN Some(Trim(pj.module.val))
  ELSE IF C7_NonBlank(pj.main) THEN Some(Trim(pj.main.val)) ELSE None

\* C7: main(Esm) is the trimmed module field when type is "module" and module
\* is present and non-blank, otherwise the trimmed main field when present and
\* non-blank, otherwise absent; main(Cjs) is the trimmed main field when
\* present and non-blank, else absent.
C7_MainSelection ==
  mainOut.asked => mainOut.result = C7_Expected(built.pj, mainOut.kind)

\* --- C8 -------------------------------------------------------------------

RECURSIVE JsonEq(_, _)
\* equality of serde_json values: objects compare as maps, arrays in order
JsonEq(x, y) ==
  IF x.t = "object" /\ y.t = "object"
  THEN /\ Len(x.o) = Len(y.o)
       /\ \A i \in 1..Len(x.o) : \E j \in 1..Len(y.o) :
            x.o[i].k = y.o[j].k /\ JsonEq(x.o[i].v, y.o[j].v)
  ELSE IF x.t = "array" /\ y.t = "array"
  THEN Len(x.a) = Len(y.a) /\ \A i \in 1..Len(x.a) : JsonEq(x.a[i], y.a[i])
  ELSE x = y

C8_StringFields == {STR_main, STR_module, STR_name, STR_version, STR_types, STR_typings}
C8_MapFields == {STR_dependencies, STR_devDependencies, STR_scripts}
C8_SerializedKeys ==
  {STR_exports, STR_imports, STR_bin, STR_main, STR_module, STR_name, STR_version,
   STR_type, STR_types, STR_dependencies, STR_devDependencies, STR_scripts,
   STR_workspaces}
C8_RecognizedKeys == C8_SerializedKeys \cup {STR_typings}

\* a value of the shape its field accepts, exports in subpath-keyed form
C8_Accepted(key, value) ==
  IF key \in C8_StringFields \cup {STR_type} THEN value.t = "string"
  ELSE IF key \in C8_MapFields
  THEN value.t = "object" /\ \A i \in 1..Len(value.o) : value.o[i].v.t = "string"
  ELSE IF key = STR_workspaces
  THEN value.t = "array" /\ \A i \in 1..Len(value.a) : value.a[i].t = "string"
  ELSE IF key = STR_imports THEN value.t = "object"
  ELSE IF key = STR_exports
  THEN value.t = "object" /\ \A i \in 1..Len(value.o) : StartsWith(value.o[i].k, <<".">>)
  ELSE TRUE

\* a document of recognized keys only, any subset of them
C8_Recognized(d) ==
  /\ d.t = "object"
  /\ \A i \in 1..Len(d.o) : d.o[i].k \in C8_RecognizedKeys /\ C8_Accepted(d.o[i].k, d.o[i].v)

\* a document that holds every serialized key, no typings, and a normalized type
C8_Complete(d) ==
  /\ C8_Recognized(d)
  /\ {d.o[i].k : i \in 1..Len(d.o)} = C8_SerializedKeys
  /\ \A i \in 1..Len(d.o) :
       d.o[i].k = STR_type => d.o[i].v.s \in {STR_module, STR_commonjs, STR_none}

C8_NoInternalState ==
  ser.done => {ser.value.o[i].k : i \in 1..Len(ser.value.o)} = C8_SerializedKeys

C10_Coerced(opt) ==
  IF opt.some /\ opt.val.t = "string" THEN Some(opt.val.s)
  ELSE IF opt.some /\ opt.val.t = "number" THEN Some(NumberToString(opt.val.n))
  ELSE None

\* C10: types is the coerced typings value if typings coerces to a string,
\* otherwise the coerced types value if types coerces to a string, otherwise
\* absent.
C10_TypingsBeforeTypes ==
  built.state = "ok" =>
    built.pj.types =
      IF C10_Coerced(RawField(STR_typings)).some THEN C10_Coerced(RawField(STR_typings))
      ELSE C10_Coerced(RawField(STR_types))

\* --- C11 ------------------------------------------------------------------

C11_Strings(a) ==
  LET kept == SelectSeq(a, LAMBDA v : v.t = "string")
  IN  [i \in 1..Len(kept) |-> kept[i].s]

\* C11: a workspaces value that is not an array yields absent workspaces; an
\* array yields the list of exactly its string elements, in their order, every
\* element of another type (number, bool, null, array, object) being dropped.
C11_WorkspacesOnlyStrings ==
  built.state = "ok" =>
    built.pj.workspaces =
      IF RawField(STR_workspaces).some /\ RawField(STR_workspaces).val.t = "array"
      THEN Some(C11_Strings(RawField(STR_workspaces).val.a))
      ELSE None

-----------------------------------------------------------------------------
(* Claims about load_from_path, checked under SpecLoad                     *)

Ops(log) == [i \in 1..Len(log) |-> log[i].op]

\* C2: with a cache, load_from_path calls cache.get, then (only on a miss) the
\* Text Source, then builds, then calls cache.set, then returns: a hit returns
\* the cached instance with no read and no set; a miss whose read and parse
\* succeed calls cache.set(path, m) exactly once and returns that m, and
\* cache.get(path) right after that set yields m.
C2_GetReadBuildSetOrder ==
  \A t \in Loaders :
    lwith[t] =>
      /\ Ops(llog[t]) \in {<<>>, <<"get">>, <<"get", "read">>, <<"get", "read", "set">>}
      /\ (lpc[t] \in {"done", "idle"} /\ llog[t] # <<>>) =>
           LET g == llog[t][1]
           IN  /\ g.path = lpath[t]
               /\ IF g.found.some
                  THEN /\ Ops(llog[t]) = <<"get">>
                       /\ lres[t] = Ok(g.found.val)
                  ELSE IF fs[lpath[t]].ok /\ load_from_string(lpath[t], fs[lpath[t]].text).ok
                  THEN /\ Ops(llog[t]) = <<"get", "read", "set">>
                       /\ llog[t][3].path = lpath[t]
                       /\ lres[t] = Ok(llog[t][3].rc)
                       /\ llog[t][3].then = Some(llog[t][3].rc)
                       /\ heap[llog[t][3].rc].path = lpath[t]
                  ELSE /\ Ops(llog[t]) = <<"get", "read">>
                       /\ ~lres[t].ok

\* C2 witness: one loader has returned from a miss that read, built and set,
\* and another has returned the same instance from a hit.
C2_Witness ==
  \E t, u \in Loaders :
    /\ lpc[t] = "done" /\ lpc[u] = "done"
    /\ lwith[t] /\ lwith[u]
    /\ Ops(llog[t]) = <<"get", "read", "set">>
    /\ Ops(llog[u]) = <<"get">>
    /\ lres[u] = lres[t]
    /\ lres[t].ok

\* --- C3 -------------------------------------------------------------------

C3_Blank(text) == \A i \in 1..Len(text) : text[i] \in WhiteSpace
C3_Reads(log) == \E i \in 1..Len(log) : log[i].op = "read"
C3_Sets(log) == \E i \in 1..Len(log) : log[i].op = "set"

\* C3: when load_from_path misses the cache and the read fails, it returns the
\* Io error with the requested path and the I/O cause; when the read succeeds
\* but the non-blank text is not JSON, it returns the Deserialize error with
\* the path and the parse cause. Neither call calls cache.set, and the cache
\* never holds a manifest of a path whose load fails.
C3_FailuresNotCached ==
  /\ \A t \in Loaders :
       (lpc[t] \in {"done", "idle"} /\ C3_Reads(llog[t])) =>
         LET file == fs[lpath[t]]
         IN  /\ ~file.ok =>
                  /\ lres[t] = Err([kind |-> "Io", path |-> lpath[t], source |-> file.err])
                  /\ ~C3_Sets(llog[t])
             /\ (file.ok /\ ~C3_Blank(file.text) /\ ~from_str(file.text).ok) =>
                  /\ lres[t] = Err([kind |-> "Deserialize", path |-> lpath[t],
                                    source |-> from_str(file.text).err])
                  /\ ~C3_Sets(llog[t])
  /\ \A t \in Loaders : ~lres[t].ok => ~C3_Sets(llog[t])
  /\ \A p \in Paths :
       cache[p].some =>
         /\ fs[p].ok
         /\ C3_Blank(fs[p].text) \/ from_str(fs[p].text).ok
         /\ heap[cache[p].val].path = p

\* C3 witness: with a cache given, one call has failed on the read and another
\* on the parse, and the cache holds nothing for either path.
C3_Witness ==
  \E t, u \in Loaders :
    /\ lpc[t] = "done" /\ lpc[u] = "done"
    /\ lwith[t] /\ lwith[u]
    /\ ~lres[t].ok /\ lres[t].err.kind = "Io"
    /\ ~lres[u].ok /\ lres[u].err.kind = "Deserialize"
    /\ \A p \in Paths : ~cache[p].some

\* --- C12 ------------------------------------------------------------------

\* the callers that hold the manifest of path p, loaded through the cache
C12_Returned(p) ==
  {t \in Loaders : lpc[t] = "done" /\ lwith[t] /\ lpath[t] = p /\ lres[t].ok}

\* C12 as stated: for a file that reads successfully, under every interleaving
\* of the calls for one path through the shared cache, all callers receive the
\* same instance, it is the one the cache holds once all calls have returned,
\* and the manifest is built at most once.
C12_OneInstancePerPath ==
  \A p \in Paths :
    fs[p].ok =>
      /\ \A t, u \in C12_Returned(p) : lres[t].rc = lres[u].rc
      /\ (\A t \in Loaders : lpc[t] \in {"done", "idle"}) =>
           \A t \in C12_Returned(p) : cache[p] = Some(lres[t].rc)
      /\ Cardinality({t \in C12_Returned(p) : lpkg[t] # 0}) <= 1

\* C12 amended: each caller receives the instance the cache held at its get
\* and builds nothing, or, the cache holding none, an instance of its own that
\* it builds once and sets; the instances received for one path and the one
\* the cache holds are equal manifests, and no more manifests are built than
\* calls were made.
C12_CachedOrOwnInstance ==
  /\ \A p \in Paths :
       \A t \in C12_Returned(p) :
         /\ IF llog[t][1].found.some
            THEN /\ lres[t].rc = llog[t][1].found.val
                 /\ lpkg[t] = 0
            ELSE /\ lres[t].rc = lpkg[t]
                 /\ lpkg[t] \in 1..Len(heap)
                 /\ \A u \in Loaders \ {t} : lpkg[u] # lpkg[t]
         /\ cache[p].some
         /\ heap[cache[p].val] = heap[lres[t].rc]
         /\ \A u \in C12_Returned(p) : heap[lres[u].rc] = heap[lres[t].rc]
  /\ Len(heap) <= loads

\* C12 witness: two calls for one path overlapped, both missed, and the callers
\* hold different instances, the cache holding one of them.
C12_Witness ==
  \E p \in Paths :
    \E t, u \in C12_Returned(p) :
      /\ lres[t].rc # lres[u].rc
      /\ ~llog[t][1].found.some /\ ~llog[u][1].found.some
      /\ cache[p] \in {Some(lres[t].rc), Some(lres[u].rc)}

====
